---- MODULE Spec2Model ----
(***************************************************************************)
(* imotions_to_codegrits.py: a session that connects to the iMotions API   *)
(* server, reassembles newline-delimited JSON lines from socket chunks,    *)
(* filters the EyeData samples and prints one normalized line per sample.  *)
(*                                                                         *)
(* The stream is a sequence of tokens.  A token is one byte,               *)
(*   [c |-> "\n"], [c |-> "\r"], [c |-> "x"], [c |-> "C3"], [c |-> "A9"]   *)
(* (C3 A9 is the two-byte UTF-8 encoding of one character), or a fragment  *)
(* of JSON text that no chunk boundary cuts,                               *)
(*   [json |-> members, open |-> BOOLEAN, close |-> BOOLEAN]               *)
(* the text of an optional "{", the members (a sequence of <<key, value>>) *)
(* and an optional "}", or the text of one JSON value that is not an       *)
(* object,                                                                 *)
(*   [lit |-> value]                                                       *)
(* a number, a string, true, null or an array.                             *)
(***************************************************************************)
EXTENDS Integers, Sequences, FiniteSets, TLC

VARIABLES
    wire,           \* bytes the server has still to deliver
    screen_width,   \* connect: screen.width
    screen_height,  \* connect: screen.height
    line_acc,       \* process_events: the carry fragment
    status,         \* "init", "receiving", "returned" (connect returned), "raised"
    exc,            \* the exception that ended the session, "none" before
    event,          \* the last step: "init", "connected", "chunk", "empty", "raise"
    now,            \* the last wall-clock reading, in milliseconds
    received,       \* history: every byte receive() has returned, in order
    parsed,         \* history: every line passed to parse_line, in order
    outcome,        \* history: what the loop did with each parsed line
    stdout,         \* history: every message printed, in order
    call            \* a call of filter_data by itself: arguments and return value

vars == <<wire, screen_width, screen_height, line_acc, status, exc, event, now,
          received, parsed, outcome, stdout, call>>

\* Bounds of the model.
MaxStream == 4      \* longest byte stream of the framing specification
MaxClock == 1       \* last wall-clock reading

----------------------------------------------------------------------------
\* Bytes and characters.

NL == [c |-> "\n"]
CR == [c |-> "\r"]
X == [c |-> "x"]
LeadByte == [c |-> "C3"]
ContByte == [c |-> "A9"]
EAcute == [c |-> "e'"]

IsJson(t) == "json" \in DOMAIN t

IsLit(t) == "lit" \in DOMAIN t

\* bytes.decode(): UTF-8; a lead byte needs its continuation byte and a
\* continuation byte needs its lead byte, else UnicodeDecodeError.
DecodeFails(bytes) ==
    \E i \in 1..Len(bytes) :
        \/ bytes[i] = LeadByte /\ (i = Len(bytes) \/ bytes[i + 1] # ContByte)
        \/ bytes[i] = ContByte /\ (i = 1 \/ bytes[i - 1] # LeadByte)

RECURSIVE decode(_)
decode(bytes) ==
    IF bytes = <<>> THEN <<>>
    ELSE IF bytes[1] = LeadByte THEN <<EAcute>> \o decode(SubSeq(bytes, 3, Len(bytes)))
    ELSE <<bytes[1]>> \o decode(Tail(bytes))

\* str.splitlines(keepends=True): a line ends after "\n", after "\r\n" and
\* after a lone "\r"; the last piece may have no terminator.
LineEnd(s) ==
    LET brk == {i \in 1..Len(s) : s[i] \in {NL, CR}}
        i == IF brk = {} THEN Len(s) ELSE CHOOSE j \in brk : \A k \in brk : j <= k
    IN  IF i < Len(s) /\ s[i] = CR /\ s[i + 1] = NL THEN i + 1 ELSE i

RECURSIVE splitlines(_)
splitlines(s) ==
    IF s = <<>> THEN <<>>
    ELSE <<SubSeq(s, 1, LineEnd(s))>> \o splitlines(SubSeq(s, LineEnd(s) + 1, Len(s)))

\* Faulty variant: a carry that was prefixed onto the first segment is not
\* cleared.
Frame_carry_kept(acc, text) ==
    LET lines0 == splitlines(text)
        lines1 == IF acc # <<>> THEN [lines0 EXCEPT ![1] = acc \o @] ELSE lines0
        last == lines1[Len(lines1)]
    IN  IF last[Len(last)] # NL
        THEN [lines |-> SubSeq(lines1, 1, Len(lines1) - 1), line_acc |-> last]
        ELSE [lines |-> lines1, line_acc |-> acc]

\* Faulty variant: the last segment is always taken as the carry.
Frame_always_pops(acc, text) ==
    LET lines0 == splitlines(text)
        lines1 == IF acc # <<>> THEN [lines0 EXCEPT ![1] = acc \o @] ELSE lines0
    IN  [lines |-> SubSeq(lines1, 1, Len(lines1) - 1), line_acc |-> lines1[Len(lines1)]]

\* process_events, lines 93-99: the framing step on one decoded chunk.
\* A record of the lines handed to the for loop and the new carry.
Frame(acc, text) ==
    LET lines0 == splitlines(text)
        lines1 == IF acc # <<>> THEN [lines0 EXCEPT ![1] = acc \o @] ELSE lines0
        last == lines1[Len(lines1)]
    IN  IF last[Len(last)] # NL
        THEN [lines |-> SubSeq(lines1, 1, Len(lines1) - 1), line_acc |-> last]
        ELSE [lines |-> lines1, line_acc |-> <<>>]

----------------------------------------------------------------------------
\* Python values: None, str, int, float (a reduced fraction), bool, list and
\* dict; and an exception raised in place of a value.

PyNone == [none |-> TRUE]
PyStr(s) == [s |-> s]
PyInt(n) == [n |-> n]
PyFloat(num, den) == [f |-> <<num, den>>]
PyBool(b) == [b |-> b]
PyList(items) == [list |-> items]
PyDict(items) == [dict |-> items]
PyRaise(e) == [raise |-> e]

IsDict(v) == "dict" \in DOMAIN v
IsStr(v) == "s" \in DOMAIN v
IsList(v) == "list" \in DOMAIN v
IsRaise(v) == "raise" \in DOMAIN v

RECURSIVE GCD(_, _)
GCD(a, b) == IF b = 0 THEN a ELSE GCD(b, a % b)

Abs(n) == IF n < 0 THEN 0 - n ELSE n

\* int / int: true division, the quotient as a float.
TrueDiv(a, b) ==
    LET g == GCD(Abs(a), b)
    IN  PyFloat((IF a < 0 THEN 0 - (Abs(a) \div g) ELSE a \div g), b \div g)

----------------------------------------------------------------------------
\* parse_line, lines 17-25.

IsSpace(t) == t \in {NL, CR}

RECURSIVE lstrip(_)
lstrip(s) == IF s # <<>> /\ IsSpace(s[1]) THEN lstrip(Tail(s)) ELSE s

RECURSIVE rstrip(_)
rstrip(s) ==
    IF s # <<>> /\ IsSpace(s[Len(s)]) THEN rstrip(SubSeq(s, 1, Len(s) - 1)) ELSE s

strip(s) == rstrip(lstrip(s))

\* The JSON tokens of a text: json.loads skips the whitespace between them.
JsonTokens(text) == SelectSeq(text, LAMBDA t : ~IsSpace(t))

\* The text of one object: "{" first, "}" last and members between.
IsObjectText(toks) ==
    \A i \in 1..Len(toks) :
        /\ IsJson(toks[i])
        /\ toks[i].open <=> (i = 1)
        /\ toks[i].close <=> (i = Len(toks))

\* Of the texts these tokens make, json.loads accepts the text of one
\* object and the text of one other value, and raises JSONDecodeError for
\* the others.
JsonWellFormed(text) ==
    LET toks == JsonTokens(text)
    IN  /\ toks # <<>>
        /\ IsObjectText(toks) \/ (Len(toks) = 1 /\ IsLit(toks[1]))

RECURSIVE Members(_)
Members(toks) == IF toks = <<>> THEN <<>> ELSE toks[1].json \o Members(Tail(toks))

\* The dict of a member list: a repeated key keeps its last value.
DictOf(members) ==
    LET keys == {members[i][1] : i \in 1..Len(members)}
        lastAt(k) == CHOOSE i \in 1..Len(members) :
                        /\ members[i][1] = k
                        /\ \A j \in 1..Len(members) : members[j][1] = k => j <= i
    IN  PyDict([k \in keys |-> members[lastAt(k)][2]])

json_loads(text) ==
    LET toks == JsonTokens(text)
    IN  IF IsLit(toks[1]) THEN toks[1].lit ELSE DictOf(Members(toks))

parse_line(line) ==
    IF JsonWellFormed(strip(line)) THEN json_loads(strip(line)) ELSE PyNone

----------------------------------------------------------------------------
\* filter_data, lines 28-39.

\* key in data raises TypeError for a value that is no container.
Iterable(data) == IsDict(data) \/ IsStr(data) \/ IsList(data)

\* key in data: a key of the dict, a substring of the str, an item of the
\* list.
Has(data, key) ==
    IF IsDict(data) THEN key \in DOMAIN data.dict
    ELSE IF IsStr(data)
         THEN \E i \in 1..(Len(data.s) - Len(key) + 1) :
                 SubSeq(data.s, i, i + Len(key) - 1) = key
    ELSE IF IsList(data) THEN \E i \in 1..Len(data.list) : data.list[i] = PyStr(key)
    ELSE FALSE

\* data[key] with a str key raises TypeError for a str and for a list;
\* lines 35-36 index data when the expectation is not None.
IndexRaises(data, device_name, sample_name) ==
    ~IsDict(data) /\ (device_name # PyNone \/ sample_name # PyNone)

\* Faulty variant: the presence check forgets DeviceName.
filter_data_unchecked_device(data, device_name, sample_name) ==
    IF ~Iterable(data) THEN PyRaise("TypeError")
    ELSE IF ~Has(data, "SampleName") THEN PyNone
    ELSE IF IndexRaises(data, device_name, sample_name) THEN PyRaise("TypeError")
    ELSE IF sample_name # PyNone /\ data.dict["SampleName"] # sample_name THEN PyNone
    ELSE data

\* Faulty variant: the sample name is not compared.
filter_data_any_sample(data, device_name, sample_name) ==
    IF ~Iterable(data) THEN PyRaise("TypeError")
    ELSE IF ~Has(data, "DeviceName") \/ ~Has(data, "SampleName") THEN PyNone
    ELSE IF IndexRaises(data, device_name, sample_name) THEN PyRaise("TypeError")
    ELSE IF device_name # PyNone /\ data.dict["DeviceName"] # device_name THEN PyNone
    ELSE data

\* Faulty variant: an expectation of None is compared like any other.
filter_data_none_compared(data, device_name, sample_name) ==
    IF ~Iterable(data) THEN PyRaise("TypeError")
    ELSE IF ~Has(data, "DeviceName") \/ ~Has(data, "SampleName") THEN PyNone
    ELSE IF ~IsDict(data) THEN PyRaise("TypeError")
    ELSE IF \/ data.dict["DeviceName"] # device_name
            \/ data.dict["SampleName"] # sample_name
         THEN PyNone
    ELSE data

filter_data(data, device_name, sample_name) ==
    IF ~Iterable(data) THEN PyRaise("TypeError")
    ELSE IF ~Has(data, "DeviceName") \/ ~Has(data, "SampleName") THEN PyNone
    ELSE IF IndexRaises(data, device_name, sample_name) THEN PyRaise("TypeError")
    ELSE IF \/ device_name # PyNone /\ data.dict["DeviceName"] # device_name
            \/ sample_name # PyNone /\ data.dict["SampleName"] # sample_name
         THEN PyNone
    ELSE data

----------------------------------------------------------------------------
\* process_events, lines 112-127: the message of an accepted record.

GazeKeys == {"GazeLeftX", "GazeLeftY", "PupilLeft", "GazeRightX", "GazeRightY", "PupilRight"}

\* data[key] raises KeyError for one of the keys the format reads.
RaisesKeyError(data) == \E k \in GazeKeys : ~Has(data, k)

Sentinel == PyInt(0 - 1)

\* Faulty variant: only a positive coordinate counts as available.
Normalized_positive(raw, size) ==
    IF raw.n > 0 THEN TrueDiv(raw.n, size) ELSE PyFloat(0 - 1, 1)

Normalized(raw, size) == IF raw # Sentinel THEN TrueDiv(raw.n, size) ELSE PyFloat(0 - 1, 1)

\* Faulty variant: one available coordinate is enough.
Valid_either(x, y) == IF x # Sentinel \/ y # Sentinel THEN PyFloat(1, 1) ELSE PyFloat(0, 1)

Valid(x, y) == IF x # Sentinel /\ y # Sentinel THEN PyFloat(1, 1) ELSE PyFloat(0, 1)

PupilValid(p) == IF p # Sentinel THEN PyFloat(1, 1) ELSE PyFloat(0, 1)

Timestamp(t) == PyInt(t)

message(d, t, width, height) ==
    << Timestamp(t),
       Normalized(d["GazeLeftX"], width),
       Normalized(d["GazeLeftY"], height),
       Valid(d["GazeLeftX"], d["GazeLeftY"]),
       d["PupilLeft"],
       PupilValid(d["PupilLeft"]),
       Normalized(d["GazeRightX"], width),
       Normalized(d["GazeRightY"], height),
       Valid(d["GazeRightX"], d["GazeRightY"]),
       d["PupilRight"],
       PupilValid(d["PupilRight"]) >>

\* Faulty variant: parse_line lets JSONDecodeError through.
Step_uncaught(line, ts, width, height) ==
    LET data == parse_line(line)
        kept == filter_data(data, PyNone, PyStr("EyeData"))
    IN  IF data = PyNone THEN [do |-> "raise", exc |-> "JSONDecodeError"]
        ELSE IF kept = PyNone THEN [do |-> "skip"]
        ELSE IF IsRaise(kept) THEN [do |-> "raise", exc |-> kept.raise]
        ELSE IF RaisesKeyError(kept) THEN [do |-> "raise", exc |-> "KeyError"]
        ELSE [do |-> "print", msg |-> message(kept.dict, Head(ts), width, height)]

\* Faulty variant: the message is written field by field, so a record that
\* lacks a gaze field has written the fields before it.
Step_partial_output(line, ts, width, height) ==
    LET data == parse_line(line)
        kept == filter_data(data, PyNone, PyStr("EyeData"))
    IN  IF data = PyNone THEN [do |-> "skip"]
        ELSE IF kept = PyNone THEN [do |-> "skip"]
        ELSE IF IsRaise(kept) THEN [do |-> "raise", exc |-> kept.raise]
        ELSE IF RaisesKeyError(kept) THEN [do |-> "print", msg |-> <<Timestamp(Head(ts))>>]
        ELSE [do |-> "print", msg |-> message(kept.dict, Head(ts), width, height)]

\* Faulty variant: the GazeTime of the record, when it has one, is printed in
\* the place of the left pupil.
Step_gaze_time(line, ts, width, height) ==
    LET data == parse_line(line)
        kept == filter_data(data, PyNone, PyStr("EyeData"))
        msg == message(kept.dict, Head(ts), width, height)
    IN  IF data = PyNone THEN [do |-> "skip"]
        ELSE IF kept = PyNone THEN [do |-> "skip"]
        ELSE IF IsRaise(kept) THEN [do |-> "raise", exc |-> kept.raise]
        ELSE IF RaisesKeyError(kept) THEN [do |-> "raise", exc |-> "KeyError"]
        ELSE IF Has(kept, "GazeTime")
             THEN [do |-> "print", msg |-> [msg EXCEPT ![5] = kept.dict["GazeTime"]]]
        ELSE [do |-> "print", msg |-> msg]

\* process_events, lines 102-128: the body of the for loop on one line; ts
\* are the clock readings to come. "skip": the line is dropped, "print": a
\* message is printed, "raise": an exception leaves the loop.
Step(line, ts, width, height) ==
    LET data == parse_line(line)
        kept == filter_data(data, PyNone, PyStr("EyeData"))
    IN  IF data = PyNone THEN [do |-> "skip"]
        ELSE IF kept = PyNone THEN [do |-> "skip"]
        ELSE IF IsRaise(kept) THEN [do |-> "raise", exc |-> kept.raise]
        ELSE IF RaisesKeyError(kept) THEN [do |-> "raise", exc |-> "KeyError"]
        ELSE [do |-> "print", msg |-> message(kept.dict, Head(ts), width, height)]

\* The for loop of lines 102-128 over the lines of one chunk, in order: the
\* lines passed to parse_line, what was done with each, the messages printed
\* and the exception that ended the loop ("none" when it ran to its end).
RECURSIVE ForLoop(_, _, _, _, _)
ForLoop(lines, ts, width, height, acc) ==
    IF lines = <<>> THEN acc
    ELSE LET s == Step(lines[1], ts, width, height)
             seen == [acc EXCEPT !.parsed = Append(@, lines[1]),
                                 !.outcome = Append(@, s.do)]
         IN  IF s.do = "raise" THEN [seen EXCEPT !.exc = s.exc]
             ELSE IF s.do = "print"
                  THEN ForLoop(Tail(lines), Tail(ts), width, height,
                               [seen EXCEPT !.printed = Append(@, s.msg)])
             ELSE ForLoop(Tail(lines), ts, width, height, seen)

\* Faulty variant: an empty chunk is taken for the end of the stream.
Iteration_empty_ends(acc, response, ts, width, height, hist) ==
    LET same == [line_acc |-> acc, parsed |-> hist.parsed, outcome |-> hist.outcome,
                 printed |-> hist.printed, exc |-> "none"]
    IN  IF response = <<>> THEN [same EXCEPT !.exc = "EndOfStream"]
        ELSE IF DecodeFails(response) THEN [same EXCEPT !.exc = "UnicodeDecodeError"]
        ELSE LET fr == Frame(acc, decode(response))
             IN  ForLoop(fr.lines, ts, width, height, [same EXCEPT !.line_acc = fr.line_acc])

\* process_events, lines 88-128: one iteration of the while loop on the chunk
\* receive() returned; ts are the clock readings to come. hist carries the history of parsed lines and printed
\* messages; the result adds the new carry and the exception that left
\* process_events ("none" when the loop goes back to receive).
Iteration(acc, response, ts, width, height, hist) ==
    LET same == [line_acc |-> acc, parsed |-> hist.parsed, outcome |-> hist.outcome,
                 printed |-> hist.printed, exc |-> "none"]
    IN  IF response = <<>> THEN same
        ELSE IF DecodeFails(response) THEN [same EXCEPT !.exc = "UnicodeDecodeError"]
        ELSE LET fr == Frame(acc, decode(response))
             IN  ForLoop(fr.lines, ts, width, height, [same EXCEPT !.line_acc = fr.line_acc])

----------------------------------------------------------------------------
\* connect, lines 59-81: the except* clauses.

Bases(e) ==
    CASE e \in {"ConnectionRefusedError", "ConnectionAbortedError", "ConnectionResetError"}
            -> {e, "ConnectionError", "OSError", "Exception"}
      [] e = "KeyError" -> {e, "LookupError", "Exception"}
      [] e = "UnicodeDecodeError" -> {e, "UnicodeError", "ValueError", "Exception"}
      [] e = "KeyboardInterrupt" -> {e}
      [] OTHER -> {e, "Exception"}

ExceptStar ==
    {"ConnectionRefusedError", "OSError", "ConnectionAbortedError", "KeyboardInterrupt",
     "EndOfStream"}

Caught(e) == Bases(e) \cap ExceptStar # {}

\* The state of connect after exception e left its try block.
AfterRaise(e) == IF Caught(e) THEN "returned" ELSE "raised"

\* What anyio.connect_tcp raises when the connection cannot be made.
ConnectErrors == {"ConnectionRefusedError", "OSError"}

\* What SocketStream.receive raises on a transport failure: the error of the
\* socket, or anyio's BrokenResourceError wrapping it.
ReceiveErrors == {"ConnectionAbortedError", "ConnectionResetError", "BrokenResourceError"}

----------------------------------------------------------------------------
\* The streams of the specifications.

Str(k, s) == <<k, PyStr(s)>>
Num(k, n) == <<k, PyInt(n)>>

\* '{"DeviceName":"T","SampleName":"EyeData",' and the rest of that line.
HeadText == [json |-> <<Str("DeviceName", "T"), Str("SampleName", "EyeData")>>,
             open |-> TRUE, close |-> FALSE]
RestText == [json |-> <<Num("GazeLeftX", 2), Num("GazeLeftY", 1), Num("GazeRightX", 0 - 1),
                        Num("GazeRightY", 0 - 1), Num("PupilLeft", 3), Num("PupilRight", 0 - 1)>>,
             open |-> FALSE, close |-> TRUE]

FramingBytes == {NL, CR, LeadByte, ContByte, HeadText, RestText}

SeqsUpTo(S, n) == UNION {[1..m -> S] : m \in 0..n}

FramingStreams == SeqsUpTo(FramingBytes, MaxStream)

Screens == {<<4, 2>>, <<3, 3>>}

\* The text of one whole JSON object.
Obj(members) == [json |-> members, open |-> TRUE, close |-> TRUE]

Names(device, sample) == <<Str("DeviceName", device), Str("SampleName", sample)>>

Eye(side, x, y, pupil) ==
    <<Num("Gaze" \o side \o "X", x), Num("Gaze" \o side \o "Y", y),
      Num("Pupil" \o side, pupil)>>

RawX == {0 - 1, 0, 2}
RawY == {0 - 1, 1}
RawPupil == {0 - 1, 3}

EyeValues == RawX \X RawY \X RawPupil

\* EyeData records with every gaze and pupil field.
GazeRecords ==
    {Names("T", "EyeData") \o Eye("Left", l[1], l[2], l[3]) \o Eye("Right", r[1], r[2], r[3]) :
        l \in EyeValues, r \in EyeValues}

FullRecord == Names("T", "EyeData") \o Eye("Left", 2, 1, 3) \o Eye("Right", 0, 0 - 1, 0 - 1)

\* Records of other devices and other sample kinds.
NamedRecords ==
    {Names(d, s) \o Eye("Left", 2, 1, 3) \o Eye("Right", 0, 0 - 1, 0 - 1) :
        d \in {"T", "U"}, s \in {"EyeData", "eyedata", "Other"}}

Without(members, i) == SubSeq(members, 1, i - 1) \o SubSeq(members, i + 1, Len(members))

\* The full record with one member left out.
ShortRecords == {Without(FullRecord, i) : i \in 1..Len(FullRecord)}

\* The full record with the time of the sample, GazeTime.
TimedRecords == {FullRecord \o <<Num("GazeTime", t)>> : t \in {5, 6}}

Records == GazeRecords \cup NamedRecords \cup ShortRecords \cup TimedRecords

\* Lines that are not JSON: empty, blank, text, a record cut short.
BadLines == {<<NL>>, <<CR, NL>>, <<X, NL>>, <<HeadText, NL>>}

\* The text of one JSON value that is not an object.
Lit(value) == [lit |-> value]

\* 7, "abc", "DeviceName SampleName", true, null, [] and
\* ["DeviceName", "SampleName"].
Literals ==
    {PyInt(7), PyStr("abc"), PyStr("DeviceName SampleName"), PyBool(TRUE), PyNone,
     PyList(<<>>), PyList(<<PyStr("DeviceName"), PyStr("SampleName")>>)}

LiteralLines == {<<Lit(v), NL>> : v \in Literals}

RecordLines == {<<Obj(r), NL>> : r \in Records} \cup BadLines \cup LiteralLines

ProbeLine == <<Obj(FullRecord), NL>>

\* One line, or a line before or after the probe line.
RecordStreams ==
    RecordLines \cup {l \o ProbeLine : l \in RecordLines}
                \cup {ProbeLine \o l : l \in RecordLines}

----------------------------------------------------------------------------
\* The session.

\* No call of filter_data by itself is made in a session.
NoCall ==
    [data |-> PyNone, given |-> PyNone, device_name |-> PyNone, sample_name |-> PyNone,
     returned |-> <<>>]

InitSession(streams) ==
    /\ wire \in streams
    /\ \E s \in Screens : screen_width = s[1] /\ screen_height = s[2]
    /\ line_acc = <<>>
    /\ status = "init"
    /\ exc = "none"
    /\ event = "init"
    /\ now = 0
    /\ received = <<>>
    /\ parsed = <<>>
    /\ outcome = <<>>
    /\ stdout = <<>>

InitWith(streams) == InitSession(streams) /\ call = NoCall

Init == InitWith(FramingStreams)

\* connect, lines 60-61: the connection is made and process_events starts.
Connect ==
    /\ status = "init"
    /\ status' = "receiving"
    /\ event' = "connected"
    /\ UNCHANGED <<wire, screen_width, screen_height, line_acc, exc, now, received,
                   parsed, outcome, stdout, call>>

\* connect, line 60: anyio.connect_tcp raises.
ConnectFails ==
    /\ status = "init"
    /\ \E e \in ConnectErrors :
          /\ exc' = e
          /\ status' = AfterRaise(e)
    /\ event' = "raise"
    /\ UNCHANGED <<wire, screen_width, screen_height, line_acc, now, received, parsed,
                   outcome, stdout, call>>

\* time.time(), line 114: the readings of the wall clock that n messages
\* printed one after the other take, none earlier than the last reading.
Readings(last, n) ==
    {ts \in [1..n -> last..MaxClock] : \A i \in 1..(n - 1) : ts[i] <= ts[i + 1]}

\* The line ends in a chunk: splitlines completes at most that many lines.
LineEnds(bytes) == Cardinality({i \in 1..Len(bytes) : bytes[i] \in {NL, CR}})

\* process_events, lines 88-128: receive() returns the next k bytes.
Receive ==
    /\ status = "receiving"
    /\ \E k \in 0..Len(wire) : \E ts \in Readings(now, LineEnds(SubSeq(wire, 1, k))) :
          LET response == SubSeq(wire, 1, k)
              r == Iteration(line_acc, response, ts, screen_width, screen_height,
                             [parsed |-> parsed, outcome |-> outcome, printed |-> stdout])
          IN  /\ wire' = SubSeq(wire, k + 1, Len(wire))
              /\ received' = received \o response
              /\ event' = IF response = <<>> THEN "empty" ELSE "chunk"
              /\ line_acc' = r.line_acc
              /\ parsed' = r.parsed
              /\ outcome' = r.outcome
              /\ stdout' = r.printed
              /\ exc' = r.exc
              /\ status' = IF r.exc = "none" THEN "receiving" ELSE AfterRaise(r.exc)
              /\ now' = IF r.printed # stdout THEN r.printed[Len(r.printed)][1].n ELSE now
    /\ UNCHANGED <<screen_width, screen_height, call>>

\* process_events, line 88: receive() raises on a transport failure.
ReceiveFails ==
    /\ status = "receiving"
    /\ \E e \in ReceiveErrors :
          /\ exc' = e
          /\ status' = AfterRaise(e)
    /\ event' = "raise"
    /\ UNCHANGED <<wire, screen_width, screen_height, line_acc, now, received, parsed,
                   outcome, stdout, call>>

\* process_events, line 88: receive() raises EndOfStream, the server closed.
EndOfStream ==
    /\ status = "receiving"
    /\ exc' = "EndOfStream"
    /\ status' = AfterRaise("EndOfStream")
    /\ event' = "raise"
    /\ UNCHANGED <<wire, screen_width, screen_height, line_acc, now, received, parsed,
                   outcome, stdout, call>>

Next == Connect \/ ConnectFails \/ Receive \/ ReceiveFails \/ EndOfStream

Spec == Init /\ [][Next]_vars

InitRecords == InitWith(RecordStreams)

SpecRecords == InitRecords /\ [][Next]_vars

----------------------------------------------------------------------------
\* filter_data called by itself, lines 28-39.

\* Records with both names, with and without gaze fields.
FilterRecords ==
    {DictOf(r) : r \in NamedRecords}
        \cup {DictOf(Names(d, s)) : d \in {"T", "U"}, s \in {"EyeData", "eyedata", "Other"}}

DeviceExpectations == {PyNone, PyStr("T"), PyStr("U"), PyStr("V")}
SampleExpectations == {PyNone, PyStr("EyeData"), PyStr("eyedata"), PyStr("Other")}

InitFilter ==
    /\ InitSession({<<>>})
    /\ \E d \in FilterRecords, dn \in DeviceExpectations, sn \in SampleExpectations :
          call = [data |-> d, given |-> d, device_name |-> dn, sample_name |-> sn,
                  returned |-> <<>>]

\* filter_data(data, device_name, sample_name) runs and returns; no statement
\* of it assigns to data or to an item of data.
FilterData ==
    /\ call.returned = <<>>
    /\ call' = [call EXCEPT
                   !.returned = <<filter_data(call.data, call.device_name, call.sample_name)>>]
    /\ UNCHANGED <<wire, screen_width, screen_height, line_acc, status, exc, event, now,
                   received, parsed, outcome, stdout>>

NextFilter == FilterData

SpecFilter == InitFilter /\ [][NextFilter]_vars

----------------------------------------------------------------------------
\* The properties.

RECURSIVE Flatten(_)
Flatten(lines) == IF lines = <<>> THEN <<>> ELSE lines[1] \o Flatten(Tail(lines))

\* The lines the framing step hands over when the whole text is one chunk.
WholeLines(text) == IF text = <<>> THEN <<>> ELSE Frame(<<>>, text).lines

\* The text received has no byte of a multi-byte character.
OrdinaryText == \A i \in 1..Len(received) : received[i] \notin {LeadByte, ContByte}

\* C1: chunk-boundary independence. For a text of "\n", "\r" and ordinary
\* characters, however it is cut into chunks, the lines passed to the parser
\* are the lines the framing step gives for the whole text as one chunk.
ChunkBoundaryIndependence ==
    OrdinaryText => parsed = WholeLines(decode(received))

\* C2: byte conservation. The lines passed to the parser so far, followed by
\* the carry, are the text of all the chunks received so far.
ByteConservation == Flatten(parsed) \o line_acc = decode(received)

\* The line parses to a record with SampleName 'EyeData' that lacks one of the
\* six gaze and pupil fields.
IsShortEyeData(line) ==
    LET data == parse_line(line)
    IN  /\ IsDict(data)
        /\ Has(data, "SampleName")
        /\ data.dict["SampleName"] = PyStr("EyeData")
        /\ \E k \in GazeKeys : ~Has(data, k)

\* C3: an EyeData record that lacks a gaze or pupil field is dropped, it alone:
\* the loop skips it and no KeyError leaves process_events.
ShortRecordIsDropped ==
    /\ exc # "KeyError"
    /\ \A i \in 1..Len(parsed) : IsShortEyeData(parsed[i]) => outcome[i] = "skip"

\* The chunk a Receive step delivers, and the steps that frame a chunk.
Chunk == SubSeq(received', Len(received) + 1, Len(received'))

ChunkStep == status = "receiving" /\ event' = "chunk" /\ ~DecodeFails(Chunk)

\* The clock readings of the messages a step printed, then the last reading.
StepReadings ==
    [i \in 1..Len(Chunk) |->
        IF Len(stdout) + i <= Len(stdout') THEN stdout'[Len(stdout) + i][1].n ELSE now']

\* A chunk step ends as the loop over the framed lines would end with the
\* lines that satisfy Drop taken out: the same messages printed, the same
\* exception or none, and the carry the framing step left.
AsIfAbsent(Drop(_)) ==
    LET fr == Frame(line_acc, decode(Chunk))
        kept == SelectSeq(fr.lines, LAMBDA l : ~Drop(l))
        r == ForLoop(kept, StepReadings, screen_width, screen_height,
                     [line_acc |-> fr.line_acc, parsed |-> <<>>, outcome |-> <<>>,
                      printed |-> stdout, exc |-> "none"])
    IN  /\ stdout' = r.printed
        /\ exc' = r.exc
        /\ line_acc' = fr.line_acc

\* After the step the loop has skipped every parsed line that satisfies Drop.
Skipped(Drop(_)) == \A i \in 1..Len(parsed') : Drop(parsed'[i]) => outcome'[i] = "skip"

\* The text of the line is not one JSON object, after strip().
Malformed(line) == ~JsonWellFormed(strip(line))

\* C4: a complete line that is not well-formed JSON is discarded: the loop
\* skips it, the carry is the one the framing step left, and the chunk is
\* processed exactly as if the line had not been there.
MalformedLineIsDiscarded ==
    [][ChunkStep => AsIfAbsent(Malformed) /\ Skipped(Malformed)]_vars

\* A malformed line was skipped and the line after it printed its message.
MalformedLineWitness ==
    \E i \in 1..Len(parsed) :
        /\ Malformed(parsed[i])
        /\ i < Len(parsed)
        /\ outcome[i + 1] = "print"
        /\ status = "receiving"

\* The line parses to a record without DeviceName or without SampleName.
LacksName(line) ==
    LET data == parse_line(line)
    IN  IsDict(data) /\ (~Has(data, "DeviceName") \/ ~Has(data, "SampleName"))

\* C5: a record that lacks DeviceName or SampleName is discarded whatever
\* else it carries: the loop skips it and goes on with the next line.
NamelessRecordIsDiscarded ==
    [][ChunkStep => AsIfAbsent(LacksName) /\ Skipped(LacksName)]_vars

\* A record with all six gaze fields but no DeviceName was skipped, and the
\* line after it printed its message.
NamelessRecordWitness ==
    \E i \in 1..Len(parsed) :
        /\ LacksName(parsed[i])
        /\ GazeKeys \subseteq DOMAIN parse_line(parsed[i]).dict
        /\ i < Len(parsed)
        /\ outcome[i + 1] = "print"

\* The value of a member of the record of a line, PyNone when absent.
Field(line, key) ==
    LET data == parse_line(line)
    IN  IF ~IsDict(data) \/ ~Has(data, key) THEN PyNone ELSE data.dict[key]

\* C6: in a session a record whose SampleName is not exactly 'EyeData' never
\* prints, and a record whose SampleName is 'EyeData' passes the filter for
\* every DeviceName (it prints, or the format raises).
OnlyEyeDataPasses ==
    \A i \in 1..Len(parsed) :
        LET device == Field(parsed[i], "DeviceName")
            sample == Field(parsed[i], "SampleName")
        IN  /\ sample # PyNone /\ sample # PyStr("EyeData") => outcome[i] = "skip"
            /\ device # PyNone /\ sample = PyStr("EyeData") => outcome[i] # "skip"

\* A record named 'eyedata' was skipped and an 'EyeData' record printed.
OnlyEyeDataWitness ==
    \E i, j \in 1..Len(parsed) :
        /\ Field(parsed[i], "SampleName") = PyStr("eyedata")
        /\ outcome[i] = "skip"
        /\ Field(parsed[j], "SampleName") = PyStr("EyeData")
        /\ outcome[j] = "print"

\* C7: receiving an empty chunk changes nothing: the carry, the lines parsed
\* and the output are as before and the session goes back to receive.
EmptyChunkIsNoOp ==
    [][event' = "empty" =>
          /\ line_acc' = line_acc
          /\ parsed' = parsed
          /\ outcome' = outcome
          /\ stdout' = stdout
          /\ exc' = "none"
          /\ status' = "receiving"]_vars

\* An empty chunk arrived while the carry held a fragment.
EmptyChunkWitness == event = "empty" /\ line_acc # <<>> /\ status = "receiving"

\* The parsed line that printed the j-th message, and its record.
PrintedAt(j) ==
    CHOOSE i \in 1..Len(outcome) :
        /\ outcome[i] = "print"
        /\ Cardinality({k \in 1..i : outcome[k] = "print"}) = j

RecordOf(j) == parse_line(parsed[PrintedAt(j)]).dict

\* The eye sides with the place of their first field in the message.
Sides == {<<"Left", 1>>, <<"Right", 6>>}

MinusOne == PyFloat(0 - 1, 1)
Zero == PyFloat(0, 1)
One == PyFloat(1, 1)

\* C8: for each eye, a raw X of -1 gives normalized X -1.0 and validity 0.0
\* whatever Y and the other eye are, and the same with X and Y exchanged.
SentinelCoordinate ==
    \A j \in 1..Len(stdout) : \A side \in Sides :
        LET x == RecordOf(j)["Gaze" \o side[1] \o "X"].n
            y == RecordOf(j)["Gaze" \o side[1] \o "Y"].n
            m == stdout[j]
            o == side[2]
        IN  /\ x = 0 - 1 => m[o + 1] = MinusOne /\ m[o + 3] = Zero
            /\ y = 0 - 1 => m[o + 2] = MinusOne /\ m[o + 3] = Zero

\* A message was printed for a record with left X -1 and left Y available,
\* and the right eye fully available.
SentinelCoordinateWitness ==
    \E j \in 1..Len(stdout) :
        /\ RecordOf(j)["GazeLeftX"].n = 0 - 1
        /\ RecordOf(j)["GazeLeftY"].n # 0 - 1
        /\ RecordOf(j)["GazeRightX"].n # 0 - 1
        /\ RecordOf(j)["GazeRightY"].n # 0 - 1

\* The float f is the quotient raw / size.
IsQuotient(f, raw, size) ==
    /\ "f" \in DOMAIN f
    /\ f.f[2] > 0
    /\ f.f[1] * size = raw * f.f[2]

\* C9: for each eye the validity flag is 1.0 exactly when raw X and raw Y both
\* differ from -1, else 0.0; when both differ the normalized X is
\* rawX / screen_width and the normalized Y is rawY / screen_height. The pupil
\* flag is 1.0 exactly when the raw pupil differs from -1, and the pupil value
\* is printed unchanged.
ValidityAndNormalization ==
    \A j \in 1..Len(stdout) : \A side \in Sides :
        LET x == RecordOf(j)["Gaze" \o side[1] \o "X"].n
            y == RecordOf(j)["Gaze" \o side[1] \o "Y"].n
            pupil == RecordOf(j)["Pupil" \o side[1]]
            m == stdout[j]
            o == side[2]
        IN  /\ m[o + 3] = IF x # 0 - 1 /\ y # 0 - 1 THEN One ELSE Zero
            /\ x # 0 - 1 /\ y # 0 - 1 =>
                  /\ IsQuotient(m[o + 1], x, screen_width)
                  /\ IsQuotient(m[o + 2], y, screen_height)
            /\ m[o + 5] = IF pupil.n # 0 - 1 THEN One ELSE Zero
            /\ m[o + 4] = pupil

\* A message was printed for a record whose left eye is fully available, with
\* X = 0, and whose right pupil is not available.
ValidityWitness ==
    \E j \in 1..Len(stdout) :
        /\ RecordOf(j)["GazeLeftX"].n = 0
        /\ RecordOf(j)["GazeLeftY"].n = 1
        /\ RecordOf(j)["PupilLeft"].n = 3
        /\ RecordOf(j)["PupilRight"].n = 0 - 1
        /\ stdout[j][4] = One

\* The exceptions of a transport failure and of the end of the stream.
TransportFailures == ConnectErrors \cup ReceiveErrors \cup {"EndOfStream"}

\* C10: every transport failure and the end of the stream end the session
\* with connect returning: no exception reaches its caller.
TransportFailureIsSwallowed == exc \in TransportFailures => status = "returned"

\* The line is a record that fails parsing, validation, filtering or field
\* extraction.
Fails(line) ==
    \/ Malformed(line)
    \/ LacksName(line)
    \/ Field(line, "SampleName") # PyStr("EyeData")
    \/ IsShortEyeData(line)

\* The field f is the normalized form of the raw coordinate: -1.0 for the
\* sentinel, else the quotient by the screen size.
IsCoordinate(f, raw, size) ==
    IF raw.n = 0 - 1 THEN f = MinusOne ELSE IsQuotient(f, raw.n, size)

\* C11: output is all-or-nothing per record. Every message printed has exactly
\* the 11 fields, in the order timestamp; X, Y, validity, pupil, pupil validity
\* of the left eye; the same five of the right eye; there is one message per
\* line the loop printed for, and a record that fails parsing, validation,
\* filtering or field extraction has printed nothing.
AllOrNothingOutput ==
    /\ Len(stdout) = Cardinality({i \in 1..Len(outcome) : outcome[i] = "print"})
    /\ \A i \in 1..Len(parsed) : Fails(parsed[i]) => outcome[i] # "print"
    /\ \A j \in 1..Len(stdout) :
          LET m == stdout[j]
          IN  /\ Len(m) = 11
              /\ DOMAIN m[1] = {"n"}
              /\ \A side \in Sides :
                    LET o == side[2]
                        d == RecordOf(j)
                    IN  /\ IsCoordinate(m[o + 1], d["Gaze" \o side[1] \o "X"], screen_width)
                        /\ IsCoordinate(m[o + 2], d["Gaze" \o side[1] \o "Y"], screen_height)
                        /\ m[o + 3] \in {Zero, One}
                        /\ m[o + 4] = d["Pupil" \o side[1]]
                        /\ m[o + 5] \in {Zero, One}

\* A record printed its message of 11 fields and the record after it, which
\* lacks a gaze field, ended the loop with nothing printed for it.
AllOrNothingWitness ==
    /\ Len(stdout) = 1
    /\ Len(stdout[1]) = 11
    /\ Len(outcome) = 2
    /\ outcome[1] = "print"
    /\ outcome[2] = "raise"
    /\ IsShortEyeData(parsed[2])

\* The complete lines of a text: its pieces up to and with each "\n".
RECURSIVE CompleteLines(_)
CompleteLines(text) ==
    LET ends == {i \in 1..Len(text) : text[i] = NL}
        e == CHOOSE i \in ends : \A k \in ends : i <= k
    IN  IF ends = {} THEN <<>>
        ELSE <<SubSeq(text, 1, e)>> \o CompleteLines(SubSeq(text, e + 1, Len(text)))

\* The line parses to a record with DeviceName, with SampleName 'EyeData' and
\* with all six gaze and pupil fields.
Accepted(line) ==
    LET data == parse_line(line)
    IN  /\ IsDict(data)
        /\ Has(data, "DeviceName")
        /\ Has(data, "SampleName")
        /\ data.dict["SampleName"] = PyStr("EyeData")
        /\ GazeKeys \subseteq DOMAIN data.dict

\* The ten fields after the timestamp of the message of an accepted line.
TenFields(line) == Tail(message(parse_line(line).dict, 0, screen_width, screen_height))

\* C12: the messages printed correspond one to one, in order, to the complete
\* lines received so far that parse to an EyeData record with DeviceName and
\* all six gaze and pupil fields: each such line has printed exactly one
\* message, before any message of a later line.
OneOutputPerAcceptedLine ==
    LET accepted == SelectSeq(CompleteLines(received), Accepted)
    IN  /\ Len(stdout) = Len(accepted)
        /\ \A j \in 1..Len(stdout) : Tail(stdout[j]) = TenFields(accepted[j])

\* C13: every line handed to the parser is a complete newline-terminated
\* line: it ends in "\n" and has no other "\n", whatever the chunks of "\n",
\* "\r" and ordinary characters and whatever the carry.
ParsedLinesEndInNewline ==
    \A i \in 1..Len(parsed) :
        LET line == parsed[i]
        IN  /\ line # <<>>
            /\ line[Len(line)] = NL
            /\ \A k \in 1..(Len(line) - 1) : line[k] # NL

\* C14: the carry is never emitted by itself. A chunk (of whole characters)
\* without any "\n" extends the carry (the old carry followed by the chunk)
\* and produces no line and no output, so that an unterminated tail is parsed
\* only after a later chunk supplies its "\n"; and the end of the stream
\* leaves whatever the carry holds unparsed and unprinted.
CarryIsNeverEmitted ==
    [][/\ ChunkStep /\ (\A i \in 1..Len(Chunk) : Chunk[i] # NL) =>
            /\ line_acc' = line_acc \o decode(Chunk)
            /\ parsed' = parsed
            /\ stdout' = stdout
            /\ exc' = "none"
       /\ exc' = "EndOfStream" => parsed' = parsed /\ stdout' = stdout]_vars

\* The lines a step handed to the parser, and those lines followed by the
\* carry the step left, when it left one.
NewParsed == SubSeq(parsed', Len(parsed) + 1, Len(parsed'))

Pieces == NewParsed \o (IF line_acc' = <<>> THEN <<>> ELSE <<line_acc'>>)

\* C15: carry use and clearing. When a chunk of text arrives while the carry
\* is not empty, the carry is prefixed onto the first segment of the chunk,
\* once, and is not kept otherwise: the lines handed over and the new carry
\* are the old carry followed by the chunk, and the first of them is the old
\* carry followed by the first segment. After a chunk that ends in "\n" the
\* carry is empty. A chunk that is exactly "\n" arriving with carry c hands
\* over exactly one line, c followed by "\n".
CarryIsUsedOnceAndCleared ==
    [][ChunkStep =>
          /\ line_acc # <<>> =>
                /\ Flatten(Pieces) = line_acc \o decode(Chunk)
                /\ Pieces[1] = line_acc \o splitlines(decode(Chunk))[1]
          /\ Chunk[Len(Chunk)] = NL => line_acc' = <<>>
          /\ line_acc # <<>> /\ Chunk = <<NL>> =>
                /\ NewParsed = <<line_acc \o <<NL>>>>
                /\ line_acc' = <<>>]_vars

\* A "\r", the head of a record and a "\n" were handed over as one line: the
\* carry held the text before the "\n" when the chunk with the "\n" arrived,
\* was prefixed onto its first segment and was cleared.
CarryIsUsedWitness ==
    /\ received = <<CR, HeadText, NL>>
    /\ parsed = <<received>>
    /\ line_acc = <<>>
    /\ event = "chunk"

\* The line is well-formed JSON that is not an object: a number, a string, a
\* boolean, null or an array.
IsNonObject(line) ==
    /\ JsonWellFormed(strip(line))
    /\ IsLit(JsonTokens(strip(line))[1])

\* C16: a complete line that is well-formed JSON but not an object with
\* DeviceName and SampleName is recovered locally: the loop skips it, it
\* prints nothing and no exception leaves process_events.
NonObjectIsSkipped ==
    \A i \in 1..Len(parsed) : IsNonObject(parsed[i]) => outcome[i] = "skip"

\* The bytes of the whole stream are the UTF-8 encoding of a text.
StreamIsText == ~DecodeFails(received \o wire)

\* C17: chunks are arbitrary cuts of the byte stream. When the stream is the
\* encoding of a text, a chunk boundary inside a multi-byte character does not
\* end the session: no UnicodeDecodeError leaves process_events, and the
\* characters received whole are in the lines handed over and the carry.
CutCharacterIsReassembled ==
    StreamIsText =>
        /\ exc # "UnicodeDecodeError"
        /\ ~DecodeFails(received) => Flatten(parsed) \o line_acc = decode(received)

\* C18: filter_data is a pure predicate. For a record with DeviceName and
\* SampleName and every pair of expectations it returns the record it was
\* given, unchanged, exactly when (device_name is None or DeviceName equals
\* it) and (sample_name is None or SampleName equals it), and None otherwise;
\* the record of the caller is as it was given.
FilterIsPurePredicate ==
    call.returned # <<>> =>
        LET d == call.given
            matches ==
                /\ call.device_name = PyNone \/ d.dict["DeviceName"] = call.device_name
                /\ call.sample_name = PyNone \/ d.dict["SampleName"] = call.sample_name
        IN  /\ call.returned[1] = IF matches THEN d ELSE PyNone
            /\ call.data = d

\* A call with a device expectation that matches and no sample expectation
\* returned the record, of a sample kind other than 'EyeData'.
FilterWitness ==
    /\ call.returned = <<call.given>>
    /\ call.device_name = PyStr("U")
    /\ call.sample_name = PyNone
    /\ call.given.dict["SampleName"] = PyStr("Other")

\* The six gaze and pupil fields of a record.
GazeOnly(d) == [k \in GazeKeys |-> d[k]]

\* C19: nothing but the carry survives from one line to the next. The ten
\* fields after the timestamp of every message printed are a function of the
\* six gaze and pupil fields of its record and of the screen width and height
\* alone: whatever lines came before, however the stream was cut into chunks
\* and whatever GazeTime the record carries, records with the same six fields
\* print the same ten fields.
TenFieldsDependOnRecordOnly ==
    /\ \A j \in 1..Len(stdout) :
          Tail(stdout[j]) = Tail(message(GazeOnly(RecordOf(j)), 0, screen_width, screen_height))
    /\ \A j, k \in 1..Len(stdout) :
          GazeOnly(RecordOf(j)) = GazeOnly(RecordOf(k)) => Tail(stdout[j]) = Tail(stdout[k])

\* Two records with the same gaze and pupil fields, the first with a GazeTime
\* and the second without, printed the same ten fields at different clock
\* readings.
TenFieldsWitness ==
    /\ Len(stdout) = 2
    /\ "GazeTime" \in DOMAIN RecordOf(1)
    /\ "GazeTime" \notin DOMAIN RecordOf(2)
    /\ GazeOnly(RecordOf(1)) = GazeOnly(RecordOf(2))
    /\ stdout[1][1] # stdout[2][1]
    /\ Tail(stdout[1]) = Tail(stdout[2])

\* The text has no "\n".
NoNewline(text) == \A i \in 1..Len(text) : text[i] # NL

\* C20: the index accesses of the framing step never fail. For every chunk
\* that is not empty and every carry, the list of segments is not empty and
\* no segment is empty when lines[0] and lines[-1][-1] are read; and the carry
\* never holds a "\n".
FramerIndexesAreDefined ==
    [][/\ NoNewline(line_acc)
       /\ \A i \in 1..Len(line_acc') : line_acc'[i] # NL
       /\ ChunkStep =>
             LET lines == splitlines(decode(Chunk))
             IN  /\ lines # <<>>
                 /\ SelectSeq(lines, LAMBDA l : l = <<>>) = <<>>]_vars

\* The chunk with the "\n" arrived while the carry was not empty, and the
\* text after the "\n" is the new carry.
FramerIndexesWitness ==
    /\ received = <<CR, HeadText, NL, RestText>>
    /\ parsed = <<<<CR, HeadText, NL>>>>
    /\ line_acc = <<RestText>>
    /\ event = "chunk"

====
